---- MODULE Spec2Model ----
(***************************************************************************)
(* State-machine model of the SentimentAnalyzer React component            *)
(* (src/src/components/SentimentAnalyzer.tsx): its four pieces of          *)
(* component state, the asynchronous fetchSentimentData handler split at   *)
(* its single await, the timeframe / refresh event handlers, and the       *)
(* derived values getChartData and currentSentiment.                       *)
(*                                                                         *)
(* issued counts the requests sent and triggers the user-initiated events   *)
(* that run a fetch (the mount effect, a timeframe change, a click on the  *)
(* refresh or Try Again button).                                           *)
(* toasts holds the calls to the notification sink made by the handler run  *)
(* that produced the current state; lastOp names that handler run and      *)
(* lastWriter the request whose response last wrote the component state.   *)
(*                                                                         *)
(* JavaScript null / undefined are represented by NULL for strings and by  *)
(* Undefined for objects; every other value is truthy except the empty     *)
(* string.                                                                 *)
(***************************************************************************)
EXTENDS Naturals, Integers, Sequences, FiniteSets, TLC

VARIABLES timeframe, isLoading, error, sentimentData,
          mounted, inflight, issued, triggers, toasts, lastOp, lastWriter

vars == <<timeframe, isLoading, error, sentimentData,
          mounted, inflight, issued, triggers, toasts, lastOp, lastWriter>>

\* Total number of requests the user causes to be issued in one behaviour.
MaxRequests == 3

\* ---------------------------------------------------------------- values

NULL == "<null>"

Undefined == [undefined |-> TRUE]

Periods == <<"24h", "7d", "30d">>

Period == {Periods[i] : i \in 1..Len(Periods)}

\* `sentiment${period}` : the key of the per-period slot of a period.
SlotKey(period) == "sentiment" \o period

\* JavaScript truthiness of the values the component tests: of an optional
\* object, and of an optional string.
Truthy(v) == v # Undefined

TruthyStr(v) == v # NULL /\ v # ""

\* a || b, on optional objects and on optional strings.
OrElseObj(a, b) == IF Truthy(a) THEN a ELSE b

OrElse(a, b) == IF TruthyStr(a) THEN a ELSE b

\* The static fallback table.
mockSentimentData ==
  [sentiment24h |-> [period |-> "24h", value |-> 75, sentiment |-> "bullish",
                     tokens_launched |-> 42, tokens_over_100k |-> 18,
                     tokens_over_1m |-> 8, profitable_tokens_percent |-> 65],
   sentiment7d  |-> [period |-> "7d", value |-> 62, sentiment |-> "bullish",
                     tokens_launched |-> 124, tokens_over_100k |-> 58,
                     tokens_over_1m |-> 22, profitable_tokens_percent |-> 52],
   sentiment30d |-> [period |-> "30d", value |-> 48, sentiment |-> "neutral",
                     tokens_launched |-> 380, tokens_over_100k |-> 160,
                     tokens_over_1m |-> 65, profitable_tokens_percent |-> 43]]

\* useState({}) : no slot is set.
EmptyData ==
  [sentiment |-> Undefined, sentiment24h |-> Undefined,
   sentiment7d |-> Undefined, sentiment30d |-> Undefined]

\* MockTable filling only the slots of the requested period.
MockTable_RequestedOnly(period) ==
  [EmptyData EXCEPT !.sentiment = mockSentimentData[SlotKey(period)],
                    ![SlotKey(period)] = mockSentimentData[SlotKey(period)]]

\* The object both fallback branches pass to setSentimentData.
MockTable(period) ==
  [sentiment    |-> mockSentimentData[SlotKey(period)],
   sentiment24h |-> mockSentimentData.sentiment24h,
   sentiment7d  |-> mockSentimentData.sentiment7d,
   sentiment30d |-> mockSentimentData.sentiment30d]

\* ------------------------------------------- the remote function's answers

\* Records the analyze-market function returns for a period (live data,
\* different from the static table).
LiveRecord(period) ==
  CASE period = "24h" -> [period |-> "24h", value |-> 81, sentiment |-> "bullish",
                          tokens_launched |-> 50, tokens_over_100k |-> 20,
                          tokens_over_1m |-> 5, profitable_tokens_percent |-> 70]
    [] period = "7d"  -> [period |-> "7d", value |-> 33, sentiment |-> "bearish",
                          tokens_launched |-> 90, tokens_over_100k |-> 30,
                          tokens_over_1m |-> 10, profitable_tokens_percent |-> 25]
    [] period = "30d" -> [period |-> "30d", value |-> 50, sentiment |-> "neutral",
                          tokens_launched |-> 300, tokens_over_100k |-> 100,
                          tokens_over_1m |-> 40, profitable_tokens_percent |-> 45]

\* data === null
NullData == [isNull |-> TRUE]

\* Response bodies that are objects: an optional error field and the four
\* optional sentiment slots.
Payload(err, s, s24, s7, s30) ==
  [isNull |-> FALSE, error |-> err, sentiment |-> s,
   sentiment24h |-> s24, sentiment7d |-> s7, sentiment30d |-> s30]

EmptyPayload == Payload(NULL, Undefined, Undefined, Undefined, Undefined)

\* Object bodies without an error field, for a request of `period`.
DataPayloads(period) ==
  {Payload(NULL, s, s24, s7, s30) :
     s   \in {Undefined, LiveRecord(period)},
     s24 \in {Undefined, LiveRecord("24h")},
     s7  \in {Undefined, LiveRecord("7d")},
     s30 \in {Undefined, LiveRecord("30d")}}

\* A record the function can return whose counts are out of order
\* (tokens_over_1m > tokens_over_100k): the SentimentData type does not
\* exclude it.
BadRecord(period) ==
  [period |-> period, value |-> 90, sentiment |-> "bullish",
   tokens_launched |-> 10, tokens_over_100k |-> 20,
   tokens_over_1m |-> 30, profitable_tokens_percent |-> 50]

\* Object bodies carrying such a record for the requested period, in either
\* shape.
BadPayloads(period) ==
  {Payload(NULL, BadRecord(period), Undefined, Undefined, Undefined),
   [EmptyPayload EXCEPT ![SlotKey(period)] = BadRecord(period)]}

\* Object bodies with an error field (an empty one is falsy).
ErrorPayloads(period) ==
  {Payload("rate limited", Undefined, Undefined, Undefined, Undefined),
   Payload("rate limited", LiveRecord(period), Undefined, Undefined, Undefined),
   Payload("", Undefined, Undefined, Undefined, Undefined),
   Payload("", LiveRecord(period), Undefined, Undefined, Undefined)}

\* { data, error } as supabase.functions.invoke resolves it.  error is the
\* message of the transport error object, NULL when there is no such object
\* (an error object whose message is empty is still an error).
Responses(period) ==
  {[error |-> m, data |-> d] :
      m \in {"network timeout", ""},
      d \in {NullData,
             Payload("rate limited", Undefined, Undefined, Undefined, Undefined)}}
  \cup {[error |-> NULL, data |-> d] :
      d \in {NullData} \cup DataPayloads(period) \cup ErrorPayloads(period)
               \cup BadPayloads(period)}

\* ------------------------------------------------------- derived values

\* getChartData with the 7d and 30d blocks in the opposite order.
getChartData_Swapped ==
  LET p24 == IF Truthy(sentimentData.sentiment24h)
             THEN <<[name |-> "24h", sentiment |-> sentimentData.sentiment24h.value]>>
             ELSE <<>>
      p7  == IF Truthy(sentimentData.sentiment7d)
             THEN <<[name |-> "7d", sentiment |-> sentimentData.sentiment7d.value]>>
             ELSE <<>>
      p30 == IF Truthy(sentimentData.sentiment30d)
             THEN <<[name |-> "30d", sentiment |-> sentimentData.sentiment30d.value]>>
             ELSE <<>>
  IN p24 \o p30 \o p7

\* getChartData
getChartData ==
  LET p24 == IF Truthy(sentimentData.sentiment24h)
             THEN <<[name |-> "24h", sentiment |-> sentimentData.sentiment24h.value]>>
             ELSE <<>>
      p7  == IF Truthy(sentimentData.sentiment7d)
             THEN <<[name |-> "7d", sentiment |-> sentimentData.sentiment7d.value]>>
             ELSE <<>>
      p30 == IF Truthy(sentimentData.sentiment30d)
             THEN <<[name |-> "30d", sentiment |-> sentimentData.sentiment30d.value]>>
             ELSE <<>>
  IN p24 \o p7 \o p30

\* currentSentiment
currentSentiment ==
  OrElseObj(sentimentData.sentiment,
         IF timeframe = "24h" THEN sentimentData.sentiment24h
         ELSE IF timeframe = "7d" THEN sentimentData.sentiment7d
         ELSE sentimentData.sentiment30d)

\* --------------------------------------------------------------- actions

NoOp == [op |-> "init", period |-> NULL, id |-> 0, outcome |-> "none",
         response |-> Undefined]

Init ==
  /\ timeframe = "24h"
  /\ isLoading = TRUE
  /\ error = NULL
  /\ sentimentData = EmptyData
  /\ mounted = FALSE
  /\ inflight = {}
  /\ issued = 0
  /\ triggers = 0
  /\ toasts = <<>>
  /\ lastOp = NoOp
  /\ lastWriter = 0

\* BeginFetch sending a request for every period at once.
BeginFetch_All(period) ==
  /\ issued < MaxRequests
  /\ isLoading' = TRUE
  /\ error' = NULL
  /\ issued' = issued + 1
  /\ inflight' = inflight \cup {[id |-> issued + 1, period |-> q] : q \in Period}
  /\ toasts' = <<>>
  /\ UNCHANGED <<sentimentData, lastWriter>>

\* fetchSentimentData up to its await: the two setters and the request.
BeginFetch(period) ==
  /\ issued < MaxRequests
  /\ isLoading' = TRUE
  /\ error' = NULL
  /\ issued' = issued + 1
  /\ inflight' = inflight \cup {[id |-> issued + 1, period |-> period]}
  /\ toasts' = <<>>
  /\ UNCHANGED <<sentimentData, lastWriter>>

\* The effect's first run, after the first render.
Mount ==
  /\ ~mounted
  /\ mounted' = TRUE
  /\ BeginFetch(timeframe)
  /\ triggers' = triggers + 1
  /\ lastOp' = [NoOp EXCEPT !.op = "mount", !.period = timeframe, !.id = issued + 1]
  /\ UNCHANGED timeframe

\* A timeframe button: setTimeframe, and the effect when the value changed.
SelectTimeframe(period) ==
  /\ mounted
  /\ IF period = timeframe
     THEN /\ lastOp' = [NoOp EXCEPT !.op = "reselect", !.period = period]
          /\ toasts' = <<>>
          /\ UNCHANGED <<timeframe, isLoading, error, sentimentData, inflight,
                         issued, triggers, lastWriter>>
     ELSE /\ timeframe' = period
          /\ BeginFetch(period)
          /\ triggers' = triggers + 1
          /\ lastOp' = [NoOp EXCEPT !.op = "select", !.period = period,
                                    !.id = issued + 1]
  /\ UNCHANGED mounted

\* The refresh button.
Refresh ==
  /\ mounted
  /\ BeginFetch(timeframe)
  /\ triggers' = triggers + 1
  /\ lastOp' = [NoOp EXCEPT !.op = "refresh", !.period = timeframe,
                            !.id = issued + 1]
  /\ UNCHANGED <<timeframe, mounted>>

\* The Try Again button of the "Data Fetch Error" view, rendered when
\* !isLoading && error && !currentSentiment.
TryAgain ==
  /\ mounted
  /\ ~isLoading
  /\ TruthyStr(error)
  /\ ~Truthy(currentSentiment)
  /\ BeginFetch(timeframe)
  /\ triggers' = triggers + 1
  /\ lastOp' = [NoOp EXCEPT !.op = "tryagain", !.period = timeframe,
                            !.id = issued + 1]
  /\ UNCHANGED <<timeframe, mounted>>

\* What the try block does with { data, error }: the message of the Error it
\* throws, or NULL when it throws nothing.
TypeErrorMessage == "Cannot read properties of null (reading 'error')"

\* Thrown with the data.error test ahead of the transport error test.
Thrown_FieldFirst(resp) ==
  IF resp.data # NullData /\ TruthyStr(resp.data.error)
  THEN resp.data.error
  ELSE IF resp.error # NULL
  THEN OrElse(resp.error, "Failed to fetch market data")
  ELSE IF resp.data = NullData
  THEN TypeErrorMessage
  ELSE NULL

Thrown(resp) ==
  IF resp.error # NULL
  THEN OrElse(resp.error, "Failed to fetch market data")
  ELSE IF resp.data = NullData
  THEN TypeErrorMessage
  ELSE IF TruthyStr(resp.data.error)
  THEN resp.data.error
  ELSE NULL

\* data && (data.sentiment || data.sentiment24h || ...)
IsValidData(data) ==
  /\ data # NullData
  /\ \/ Truthy(data.sentiment)
     \/ Truthy(data.sentiment24h)
     \/ Truthy(data.sentiment7d)
     \/ Truthy(data.sentiment30d)

\* The state object setSentimentData(data) leaves: the slots the component reads.
StoredData(data) ==
  [sentiment |-> data.sentiment, sentiment24h |-> data.sentiment24h,
   sentiment7d |-> data.sentiment7d, sentiment30d |-> data.sentiment30d]

Outcome(resp) ==
  IF Thrown(resp) # NULL THEN "error"
  ELSE IF IsValidData(resp.data) THEN "live"
  ELSE "malformed"

WarningToast ==
  [severity |-> "warning",
   text |-> "Using simulated market data. Connect APIs for live data."]

ErrorToast(message) ==
  [severity |-> "error",
   text |-> "Error loading market data: " \o OrElse(message, "Unknown error")]

\* Resolve with a retry: the catch branch sends the request again.
Resolve_Retry(req, resp) ==
  /\ req \in inflight
  /\ LET message == Thrown(resp) IN
       IF message # NULL
       THEN /\ error' = OrElse(message, "Failed to fetch market sentiment")
            /\ sentimentData' = MockTable(req.period)
            /\ toasts' = <<ErrorToast(message)>>
            /\ IF issued < MaxRequests
               THEN /\ issued' = issued + 1
                    /\ inflight' = (inflight \ {req})
                                     \cup {[id |-> issued + 1, period |-> req.period]}
               ELSE /\ inflight' = inflight \ {req}
                    /\ UNCHANGED issued
       ELSE IF IsValidData(resp.data)
       THEN /\ sentimentData' = StoredData(resp.data)
            /\ toasts' = <<>>
            /\ inflight' = inflight \ {req}
            /\ UNCHANGED <<error, issued>>
       ELSE /\ sentimentData' = MockTable(req.period)
            /\ toasts' = <<WarningToast>>
            /\ inflight' = inflight \ {req}
            /\ UNCHANGED <<error, issued>>
  /\ isLoading' = FALSE
  /\ lastWriter' = req.id
  /\ lastOp' = [op |-> "resolve", period |-> req.period, id |-> req.id,
                outcome |-> Outcome(resp), response |-> resp]
  /\ UNCHANGED <<timeframe, mounted, triggers>>

\* Resolve without the finally block: setIsLoading(false) only at the end
\* of the try block, which a throw skips.
Resolve_NoFinally(req, resp) ==
  /\ req \in inflight
  /\ inflight' = inflight \ {req}
  /\ LET message == Thrown(resp) IN
       IF message # NULL
       THEN /\ error' = OrElse(message, "Failed to fetch market sentiment")
            /\ sentimentData' = MockTable(req.period)
            /\ toasts' = <<ErrorToast(message)>>
            /\ UNCHANGED isLoading
       ELSE IF IsValidData(resp.data)
       THEN /\ sentimentData' = StoredData(resp.data)
            /\ toasts' = <<>>
            /\ isLoading' = FALSE
            /\ UNCHANGED error
       ELSE /\ sentimentData' = MockTable(req.period)
            /\ toasts' = <<WarningToast>>
            /\ isLoading' = FALSE
            /\ UNCHANGED error
  /\ lastWriter' = req.id
  /\ lastOp' = [op |-> "resolve", period |-> req.period, id |-> req.id,
                outcome |-> Outcome(resp), response |-> resp]
  /\ UNCHANGED <<timeframe, mounted, issued, triggers>>

\* fetchSentimentData from its await to the end of finally.
Resolve(req, resp) ==
  /\ req \in inflight
  /\ inflight' = inflight \ {req}
  /\ LET message == Thrown(resp) IN
       IF message # NULL
       THEN \* catch
            /\ error' = OrElse(message, "Failed to fetch market sentiment")
            /\ sentimentData' = MockTable(req.period)
            /\ toasts' = <<ErrorToast(message)>>
       ELSE IF IsValidData(resp.data)
       THEN /\ sentimentData' = StoredData(resp.data)
            /\ toasts' = <<>>
            /\ UNCHANGED error
       ELSE /\ sentimentData' = MockTable(req.period)
            /\ toasts' = <<WarningToast>>
            /\ UNCHANGED error
  /\ isLoading' = FALSE
  /\ lastWriter' = req.id
  /\ lastOp' = [op |-> "resolve", period |-> req.period, id |-> req.id,
                outcome |-> Outcome(resp), response |-> resp]
  /\ UNCHANGED <<timeframe, mounted, issued, triggers>>

Next ==
  \/ Mount
  \/ \E period \in Period : SelectTimeframe(period)
  \/ Refresh
  \/ TryAgain
  \/ \E req \in inflight : \E resp \in Responses(req.period) : Resolve(req, resp)

Spec == Init /\ [][Next]_vars

\* One response of each kind a request can return: a transport error, an
\* error field, a null body, an empty body, and live data in each of the two
\* accepted shapes.
ResponseKinds(period) ==
  {[error |-> "network timeout", data |-> NullData],
   [error |-> NULL, data |-> NullData],
   [error |-> NULL,
    data |-> Payload("rate limited", Undefined, Undefined, Undefined, Undefined)],
   [error |-> NULL, data |-> EmptyPayload],
   [error |-> NULL,
    data |-> Payload(NULL, LiveRecord(period), Undefined, Undefined, Undefined)],
   [error |-> NULL,
    data |-> [EmptyPayload EXCEPT ![SlotKey(period)] = LiveRecord(period)]]}

\* Some request in flight returns, with a response of one of these kinds.
Return ==
  \E req \in inflight : \E resp \in ResponseKinds(req.period) : Resolve(req, resp)

FairNext ==
  \/ Mount
  \/ \E period \in Period : SelectTimeframe(period)
  \/ Refresh
  \/ TryAgain
  \/ Return

\* The effect runs after the first render, and every request in flight
\* eventually returns: the continuation of its await is then run by the
\* event loop.
FairSpec ==
  /\ Init
  /\ [][FairNext]_vars
  /\ WF_vars(Mount)
  /\ WF_vars(Return)

\* ------------------------------------------------------------ type check

TypeOK ==
  /\ timeframe \in Period
  /\ isLoading \in BOOLEAN
  /\ mounted \in BOOLEAN
  /\ issued \in 0..MaxRequests
  /\ triggers \in 0..MaxRequests
  /\ \A req \in inflight : req.id \in 1..issued /\ req.period \in Period
  /\ Len(toasts) <= 1

\* ------------------------------------------------------- claim vocabulary

\* records[period] of the store: the per-period slot of the component state.
Record(data, period) == data[SlotKey(period)]

LastResolved == lastOp.op = "resolve"

LastLive == LastResolved /\ lastOp.outcome = "live"

LastFallback == LastResolved /\ lastOp.outcome \in {"error", "malformed"}

\* The response of the last resolution carried a transport error object.
LastTransportError == lastOp.response.error # NULL

\* The body of the last resolution's response carried a non-empty error field.
LastErrorField ==
  /\ lastOp.response.data # NullData
  /\ lastOp.response.data.error \notin {NULL, ""}

\* The body of the last resolution's response carried no sentiment object.
LastNoSentiment ==
  \/ lastOp.response.data = NullData
  \/ \A key \in {"sentiment", "sentiment24h", "sentiment7d", "sentiment30d"} :
        lastOp.response.data[key] = Undefined

\* ----------------------------------------------------------------- claims

\* C1: a Live resolution for one period leaves the records already stored
\* for the other two periods present and unchanged.
C1_OtherPeriodsPreserved ==
  [][(lastOp'.op = "resolve" /\ lastOp'.outcome = "live") =>
       \A q \in Period \ {lastOp'.period} :
          Record(sentimentData, q) # Undefined =>
             Record(sentimentData', q) = Record(sentimentData, q)]_vars

\* C2: last-requested-wins: the response of an older request is never
\* written to the component state after the response of a newer request.
C2_LastRequestedWins == [][lastWriter' >= lastWriter]_vars

\* C3: after every fallback resolution, whatever its cause, lastError is a
\* non-empty reason.
C3_FallbackSetsError == LastFallback => (error # NULL /\ error # "")

\* C4: after every Live resolution lastError is unset.
C4_LiveClearsError == LastLive => error = NULL

\* C5: after a Live resolution for period p whose payload carries the record
\* r for p (as the single-period object, else as p's per-period object), the
\* store holds r under p and the chart series has a point for p with r's
\* score.
C5_LiveRecordStored ==
  LastLive =>
    LET p == lastOp.period
        data == lastOp.response.data
        r == IF data.sentiment # Undefined THEN data.sentiment ELSE Record(data, p)
    IN r # Undefined =>
         /\ Record(sentimentData, p) = r
         /\ \E i \in 1..Len(getChartData) :
               getChartData[i] = [name |-> p, sentiment |-> r.value]

\* C6: a fallback resolution for period p stores the static record under p
\* and leaves every record already stored for another period unchanged.
C6_FallbackSeedsOnlyEmpty ==
  [][(lastOp'.op = "resolve" /\ lastOp'.outcome \in {"error", "malformed"}) =>
       /\ Record(sentimentData', lastOp'.period)
            = Record(mockSentimentData, lastOp'.period)
       /\ \A q \in Period \ {lastOp'.period} :
             Record(sentimentData, q) # Undefined =>
                Record(sentimentData', q) = Record(sentimentData, q)]_vars

\* C7: the chart series has exactly one point per period present in the
\* store, in the order 24h, 7d, 30d, each with its period's label and score;
\* absent periods contribute no point.
C7_SeriesCanonical ==
  LET series == getChartData
      present == {p \in Period : Record(sentimentData, p) # Undefined}
      Rank(p) == CHOOSE i \in 1..Len(Periods) : Periods[i] = p
  IN /\ Len(series) = Cardinality(present)
     /\ \A i \in 1..Len(series) :
           /\ series[i].name \in present
           /\ series[i].sentiment = Record(sentimentData, series[i].name).value
     /\ \A i, j \in 1..Len(series) :
           i < j => Rank(series[i].name) < Rank(series[j].name)

\* A resolution has left 24h and 30d present and 7d absent: two points.
C7_Witness ==
  /\ LastResolved
  /\ sentimentData.sentiment24h # Undefined
  /\ sentimentData.sentiment7d = Undefined
  /\ sentimentData.sentiment30d # Undefined
  /\ Len(getChartData) = 2

\* C8: whenever the widget shows a record (loading is false), the current
\* record is undefined or is the record stored for the selected timeframe,
\* so its period is the selected timeframe.
C8_CurrentIsSelected ==
  ~isLoading =>
     \/ currentSentiment = Undefined
     \/ /\ currentSentiment.period = timeframe
        /\ currentSentiment \in {sentimentData.sentiment,
                                 Record(sentimentData, timeframe)}

\* C9: after a resolution whose response carried a transport error or an
\* error field, the static record of the requested period is stored under it,
\* lastError is the failure's message (the transport error's message, or the
\* handler's default text when that message is empty; the error field's text
\* only when there is no transport error), and exactly one notification, of
\* error severity, was emitted.
C9_ErrorPathFallback ==
  (LastResolved /\ (LastTransportError \/ LastErrorField)) =>
     LET p == lastOp.period
         resp == lastOp.response
         message == IF resp.error = NULL THEN resp.data.error
                    ELSE IF resp.error = "" THEN "Failed to fetch market data"
                    ELSE resp.error
     IN /\ Record(sentimentData, p) = Record(mockSentimentData, p)
        /\ error = message
        /\ Len(toasts) = 1
        /\ toasts[1].severity = "error"

\* A response with both a transport error and an error field was resolved.
C9_Witness ==
  /\ LastResolved
  /\ LastTransportError
  /\ LastErrorField
  /\ error = "network timeout"

\* C10: a successful response with no error field and no sentiment object
\* resolves as a fallback with exactly one notification, of warning
\* severity; an error-severity notification is emitted only when the
\* response carried a transport error or an error field; no resolution emits
\* more than one notification.
C10_MalformedWarnsOnly ==
  LastResolved =>
     /\ Len(toasts) <= 1
     /\ (~LastTransportError /\ ~LastErrorField /\ LastNoSentiment) =>
           /\ Record(sentimentData, lastOp.period)
                = Record(mockSentimentData, lastOp.period)
           /\ Len(toasts) = 1
           /\ toasts[1].severity = "warning"
     /\ (\E i \in 1..Len(toasts) : toasts[i].severity = "error") =>
           (LastTransportError \/ LastErrorField)

\* tokensOver1m <= tokensOver100k <= tokensLaunched
WellOrdered(record) ==
  /\ record.tokens_over_1m <= record.tokens_over_100k
  /\ record.tokens_over_100k <= record.tokens_launched

\* C11: every record in the store satisfies
\* tokens_over_1m <= tokens_over_100k <= tokens_launched; a response carrying
\* a record that violates it is not stored as Live data.
C11_StoredRecordsOrdered ==
  \A key \in {"sentiment", "sentiment24h", "sentiment7d", "sentiment30d"} :
     sentimentData[key] # Undefined => WellOrdered(sentimentData[key])

\* C12: a response is accepted as Live for a fetch of period p only if it
\* carries a record for p, as the single-period object or as p's per-period
\* object.
C12_LiveHasRequestedPeriod ==
  LastLive =>
     \/ lastOp.response.data.sentiment # Undefined
     \/ Record(lastOp.response.data, lastOp.period) # Undefined

\* C13: no automatic retry: the number of requests sent equals the number
\* of user-initiated triggers; a resolution of any kind sends no request;
\* a click on the refresh or Try Again button requests the selected timeframe.
C13_NoAutomaticRetry ==
  [][/\ issued' = triggers'
     /\ lastOp'.op = "resolve" =>
           (issued' = issued /\ inflight' \subseteq inflight)
     /\ lastOp'.op \in {"refresh", "tryagain"} =>
           /\ timeframe' = timeframe
           /\ inflight' \ inflight = {[id |-> issued', period |-> timeframe]}]_vars

\* The second of two requests was resolved as a failure: nothing is in
\* flight and the counts still agree.
C13_Witness ==
  /\ LastResolved
  /\ lastOp.outcome = "error"
  /\ inflight = {}
  /\ issued = 2
  /\ triggers = 2

\* C14 (as stated): no two requests for different periods are outstanding at
\* the same time.
C14_SinglePeriodInFlight ==
  \A r1, r2 \in inflight : r1.period = r2.period

\* C14 (amended): a handler run sends at most one request, and only for the
\* timeframe selected when it ends; an outstanding request for another period
\* was already outstanding before the run (the user switched timeframe while
\* it was in flight, and it is not cancelled).
C14_OneRequestPerRun ==
  [][/\ Cardinality(inflight' \ inflight) <= 1
     /\ \A r \in inflight' : r.period # timeframe' => r \in inflight]_vars

\* A timeframe switch has just left requests for two periods in flight.
C14_Witness ==
  /\ lastOp.op = "select"
  /\ \E r1, r2 \in inflight : r1.period # r2.period /\ r2.period = timeframe

\* C15: when every request in flight eventually returns and the user
\* eventually stops, the widget eventually has loading = false and keeps it,
\* with nothing left in flight, whatever the responses were.
C15_EventuallyNotLoading == <>[](~isLoading /\ inflight = {})

\* The last request returned a null body and the widget is not loading.
C15_Witness ==
  /\ LastResolved
  /\ lastOp.response.error = NULL
  /\ lastOp.response.data = NullData
  /\ inflight = {}
  /\ ~isLoading

\* C17: loading is true whenever at least one request is outstanding.
C17_LoadingWhileInFlight == inflight # {} => isLoading

\* C18: with loading = false and lastError set the current record is
\* defined: the "Data Fetch Error" view is never shown.
C18_ErrorViewUnreachable ==
  (~isLoading /\ error # NULL) => currentSentiment # Undefined

\* C19: immediately after a fallback resolution for period p, on the error
\* path or the malformed path, the three per-period slots hold the static
\* table, the single-period slot holds the static record of p, and the chart
\* series is 75, 62, 48 under the labels 24h, 7d, 30d.
C19_FallbackFillsTable ==
  LastFallback =>
     /\ \A q \in Period : Record(sentimentData, q) = Record(mockSentimentData, q)
     /\ sentimentData.sentiment = Record(mockSentimentData, lastOp.period)
     /\ sentimentData.sentiment.period = lastOp.period
     /\ getChartData = <<[name |-> "24h", sentiment |-> 75],
                         [name |-> "7d", sentiment |-> 62],
                         [name |-> "30d", sentiment |-> 48]>>

\* An empty body was resolved for a 30d request.
C19_Witness ==
  /\ LastResolved
  /\ lastOp.outcome = "malformed"
  /\ lastOp.period = "30d"
  /\ lastOp.response.data = EmptyPayload

====
